---- MODULE Spec2Model ----
(***************************************************************************)
(* A model of the contract SDK's persistent Map (src/src/map.rs) over the  *)
(* two-primitive key-value store of src/src/storage.rs.                    *)
(*                                                                         *)
(* Bytes are naturals in 0..255, byte buffers are sequences of bytes.      *)
(* The modelled instantiation is Map<u32, bool>: u32 keys as in the tests  *)
(* of map.rs, and a value type whose own decode can fail on a full buffer. *)
(***************************************************************************)
EXTENDS Naturals, Integers, Sequences, FiniteSets, TLC

VARIABLES
    store,      \* the host's storage: StorageKey -> Option<Vec<u8>>
    inst,       \* the Map instances the running contract holds, by slot
    panicked,   \* the execution has aborted (panic_handler -> abort)
    last,       \* the operation that produced this state, and its arguments
    flushed,    \* per storage key: the table the last Map::flush wrote there
    probe       \* input / output of the pure functions under test

vars == <<store, inst, panicked, last, flushed, probe>>

--------------------------------------------------------------------------
(* Option<T> *)

None == [some |-> FALSE, v |-> <<>>]
Some(x) == [some |-> TRUE, v |-> x]

(* Byte helpers *)

Zeros(n) == [i \in 1..n |-> 0]
Take(s, n) == SubSeq(s, 1, n)
Drop(s, n) == SubSeq(s, n + 1, Len(s))

--------------------------------------------------------------------------
(* Storage keys: src/src/storage.rs *)

\* the width of a StorageKey (H256), in bytes
KEY_LEN == 32

\* StorageKey::from with the copied range one byte short: buf[..k_len - 1]
StorageKeyFrom_Off(k) ==
    LET k_len == Len(k) IN
    IF k_len > KEY_LEN
    THEN Take(k, KEY_LEN)
    ELSE [i \in 1..KEY_LEN |-> IF i < k_len THEN k[i] ELSE 0]

\* impl<T: AsRef<[u8]>> From<T> for StorageKey
StorageKeyFrom(k) ==
    LET k_len == Len(k) IN
    IF k_len >= KEY_LEN
    THEN Take(k, KEY_LEN)
    ELSE [i \in 1..KEY_LEN |-> IF i <= k_len THEN k[i] ELSE 0]

\* StorageKey::zero()
StorageKeyZero == Zeros(KEY_LEN)

\* crate::storage::to_storage_key, the derivation map.rs binds keys with
to_storage_key(k) == StorageKeyFrom(k)

\* crate::storage::STORAGE_KEY_ZERO
STORAGE_KEY_ZERO == StorageKeyZero

--------------------------------------------------------------------------
(* parity_codec, as used by map.rs: fixed-width little-endian integers,   *)
(* one-byte bool, tuples by concatenation, Vec<T> as Compact<u32> length  *)
(* followed by the items.  A decode reads a prefix of its input and       *)
(* returns Option: [ok, val, rest], rest being the unread input.          *)

DecodeFail == [ok |-> FALSE, val |-> 0, rest |-> <<>>]
Decoded(x, r) == [ok |-> TRUE, val |-> x, rest |-> r]

\* u8 / u16 / u32 from little-endian bytes
LE(bytes) ==
    LET RECURSIVE Val(_)
        Val(i) == IF i > Len(bytes) THEN 0 ELSE bytes[i] + 256 * Val(i + 1)
    IN Val(1)

\* the n low bytes of x, least significant first
ToLE(x, n) ==
    LET RECURSIVE Pow(_)
        Pow(i) == IF i = 0 THEN 1 ELSE 256 * Pow(i - 1)
    IN [i \in 1..n |-> (x \div Pow(i - 1)) % 256]

\* u32 written most significant byte first
EncodeU32_BE(x) == [i \in 1..4 |-> ToLE(x, 4)[5 - i]]

\* impl Encode for u32 (the map's key type K)
EncodeU32(x) == ToLE(x, 4)

\* impl Decode for u32
DecodeU32(buf) ==
    IF Len(buf) < 4 THEN DecodeFail ELSE Decoded(LE(Take(buf, 4)), Drop(buf, 4))

\* impl Encode for bool (the map's value type V)
EncodeBool(b) == IF b THEN <<1>> ELSE <<0>>

\* impl Decode for bool: one byte, 0 or 1, anything else is no bool
DecodeBool(buf) ==
    IF Len(buf) < 1 THEN DecodeFail
    ELSE IF buf[1] = 0 THEN Decoded(FALSE, Drop(buf, 1))
    ELSE IF buf[1] = 1 THEN Decoded(TRUE, Drop(buf, 1))
    ELSE DecodeFail

\* impl Encode for Compact<u32>: the length prefix of a Vec
EncodeCompact(x) ==
    IF x < 64 THEN ToLE(4 * x, 1)
    ELSE IF x < 16384 THEN ToLE(4 * x + 1, 2)
    ELSE IF x < 1073741824 THEN ToLE(4 * x + 2, 4)
    ELSE <<3>> \o ToLE(x, 4)

\* impl Decode for Compact<u32>: the two low bits of the first byte select
\* the width
DecodeCompact(buf) ==
    IF Len(buf) < 1 THEN DecodeFail
    ELSE LET mode == buf[1] % 4 IN
         IF mode = 0 THEN Decoded(buf[1] \div 4, Drop(buf, 1))
         ELSE IF mode = 1 THEN
             IF Len(buf) < 2 THEN DecodeFail
             ELSE Decoded(LE(Take(buf, 2)) \div 4, Drop(buf, 2))
         ELSE IF mode = 2 THEN
             IF Len(buf) < 4 THEN DecodeFail
             ELSE Decoded(LE(Take(buf, 4)) \div 4, Drop(buf, 4))
         ELSE IF buf[1] \div 4 = 0 /\ Len(buf) >= 5
              THEN Decoded(LE(SubSeq(buf, 2, 5)), Drop(buf, 5))
              ELSE DecodeFail

\* impl Encode for (&K, &V): the key's bytes, then the value's
EncodePair(k, v) == EncodeU32(k) \o EncodeBool(v)

\* impl Decode for (K, V): the key, then the value, from what the key left
DecodePair(buf) ==
    LET dk == DecodeU32(buf) IN
    IF ~dk.ok THEN DecodeFail
    ELSE LET dv == DecodeBool(dk.rest) IN
         IF ~dv.ok THEN DecodeFail
         ELSE Decoded(<<dk.val, dv.val>>, dv.rest)

\* impl Encode for Vec<(&K, &V)>; data is a sequence of <<k, v>>
EncodeVec(data) ==
    LET RECURSIVE Items(_)
        Items(i) == IF i > Len(data) THEN <<>>
                    ELSE EncodePair(data[i][1], data[i][2]) \o Items(i + 1)
    IN EncodeCompact(Len(data)) \o Items(1)

\* impl Decode for Vec<(K, V)>: the count, then that many pairs; None as
\* soon as one pair does not decode
DecodeVec(buf) ==
    LET dl == DecodeCompact(buf)
        RECURSIVE Items(_, _, _)
        Items(n, b, acc) ==
            IF n = 0 THEN Decoded(acc, b)
            ELSE LET d == DecodePair(b) IN
                 IF ~d.ok THEN DecodeFail
                 ELSE Items(n - 1, d.rest, Append(acc, d.val))
    IN IF ~dl.ok THEN DecodeFail ELSE Items(dl.val, dl.rest, <<>>)

--------------------------------------------------------------------------
(* The low-level storage ABI: src/src/storage.rs, src/src/runtime.rs *)

\* isize::max_value() as u32, on the 32-bit wasm target
ISIZE_MAX == 2147483647

\* runtime::read_scratch_buffer: the bytes the host left in the scratch
\* buffer, or an empty vector when their length is 0 or out of range
read_scratch_buffer(scratch) ==
    IF Len(scratch) > 0 /\ Len(scratch) < ISIZE_MAX THEN scratch ELSE <<>>

\* Storage::get_kv: None unless ext_get_storage reports SUCCESS
get_kv(st, key) ==
    IF st[key].some THEN Some(read_scratch_buffer(st[key].v)) ELSE None

\* cabi::ext_set_storage, the host's write: the bytes when value_non_null
\* is 1, a cleared entry when it is 0
ext_set_storage(st, key, value_non_null, bytes) ==
    [st EXCEPT ![key] = IF value_non_null = 1 THEN Some(bytes) ELSE None]

\* Storage::put_kv with a zero-filled payload of key length standing in for
\* an absent value
put_kv_args_Sentinel(value) ==
    IF value.some
    THEN [value_non_null |-> 1, value_len |-> Len(value.v), bytes |-> value.v]
    ELSE [value_non_null |-> 1, value_len |-> KEY_LEN, bytes |-> Zeros(KEY_LEN)]

\* Storage::put_kv, the arguments it hands to ext_set_storage after the key:
\* the flag, the length and the bytes behind value_ptr (pointer 0 and
\* length 0 when the value is None)
put_kv_args(value) ==
    IF value.some
    THEN [value_non_null |-> 1, value_len |-> Len(value.v), bytes |-> value.v]
    ELSE [value_non_null |-> 0, value_len |-> 0, bytes |-> <<>>]

\* Storage::put_kv
put_kv(st, key, value) ==
    ext_set_storage(st, key, put_kv_args(value).value_non_null,
                    put_kv_args(value).bytes)

--------------------------------------------------------------------------
(* Map<K, V>: src/src/map.rs.  A map is [inner, storage_key]; inner is a  *)
(* function from the keys present to their values (hashbrown::HashMap).   *)

EmptyInner == [k \in {} |-> FALSE]

\* HashMap::insert keeping the value of a key already present
HashInsert_KeepFirst(h, k, v) ==
    [j \in DOMAIN h \cup {k} |-> IF j \in DOMAIN h THEN h[j] ELSE v]

\* HashMap::insert
HashInsert(h, k, v) ==
    [j \in DOMAIN h \cup {k} |-> IF j = k THEN v ELSE h[j]]

\* HashMap::remove
HashRemove(h, k) == [j \in DOMAIN h \ {k} |-> h[j]]

\* Map::new
MapNew(storage_key) ==
    [inner |-> EmptyInner, storage_key |-> to_storage_key(storage_key)]

\* Map::default
MapDefault == [inner |-> EmptyInner, storage_key |-> STORAGE_KEY_ZERO]

\* Map::len
MapLen(m) == Cardinality(DOMAIN m.inner)

\* Map::is_empty
MapIsEmpty(m) == DOMAIN m.inner = {}

\* Map::get
MapGet(m, key) == IF key \in DOMAIN m.inner THEN Some(m.inner[key]) ELSE None

\* Map::contains_key
MapContainsKey(m, key) == key \in DOMAIN m.inner

\* Map::insert
MapInsert(m, key, value) == [m EXCEPT !.inner = HashInsert(m.inner, key, value)]

\* Map::remove calling HashMap::clear when the key is present
MapRemove_Clear(m, key) ==
    IF key \in DOMAIN m.inner THEN [m EXCEPT !.inner = EmptyInner] ELSE m

\* Map::remove
MapRemove(m, key) == [m EXCEPT !.inner = HashRemove(m.inner, key)]

\* Map::iter: hashbrown visits the entries in an arbitrary order; every
\* enumeration of the keys without repetition is a possible one
IterOrders(m) ==
    LET n == Cardinality(DOMAIN m.inner) IN
    {ord \in [1..n -> DOMAIN m.inner] : \A i, j \in 1..n : ord[i] = ord[j] => i = j}

\* Map::encode losing the last entry visited when there are several
MapEncode_DropLast(m, ord) ==
    EncodeVec([i \in 1..(IF Len(ord) > 1 THEN Len(ord) - 1 ELSE Len(ord))
                 |-> <<ord[i], m.inner[ord[i]]>>])

\* impl Encode for Map, under the iteration order ord
MapEncode(m, ord) ==
    EncodeVec([i \in 1..Len(ord) |-> <<ord[i], m.inner[ord[i]]>>])

\* impl Decode for Map: the entries, inserted one by one into Map::default()
MapDecode(value) ==
    LET data == DecodeVec(value)
        RECURSIVE Rebuild(_, _)
        Rebuild(i, map) ==
            IF i > Len(data.val) THEN map
            ELSE Rebuild(i + 1, MapInsert(map, data.val[i][1], data.val[i][2]))
    IN IF ~data.ok THEN DecodeFail
       ELSE Decoded(Rebuild(1, MapDefault), data.rest)

\* Map::load_or_create without the assignment m.storage_key = storage_key
MapLoadOrCreate_KeepKey(st, key) ==
    LET storage_key == to_storage_key(key)
        got == get_kv(st, storage_key)
        buf == IF got.some THEN got.v ELSE <<>>
        dec == MapDecode(buf)
    IN IF dec.ok THEN dec.val ELSE MapNew(key)

\* Map::load_or_create: the stored bytes (none: an empty buffer), decoded
\* and bound to the requested key; Map::new(key) when they do not decode
MapLoadOrCreate(st, key) ==
    LET storage_key == to_storage_key(key)
        got == get_kv(st, storage_key)
        buf == IF got.some THEN got.v ELSE <<>>
        dec == MapDecode(buf)
    IN IF dec.ok
       THEN [dec.val EXCEPT !.storage_key = storage_key]
       ELSE MapNew(key)

\* Map::load written as load_or_create: no unwrap, never a panic
MapLoad_Lenient(st, key) ==
    LET m == MapLoadOrCreate(st, key) IN [ok |-> TRUE, val |-> m]

\* Map::load with unwrap_or(Self::new(key)) for its second unwrap()
MapLoad_UnwrapOr(st, key) ==
    LET storage_key == to_storage_key(key)
        got == get_kv(st, storage_key)
    IN IF ~got.some THEN [ok |-> FALSE, val |-> MapDefault]
       ELSE LET dec == MapDecode(got.v) IN
            IF ~dec.ok THEN [ok |-> TRUE, val |-> MapNew(key)]
            ELSE [ok |-> TRUE,
                  val |-> [dec.val EXCEPT !.storage_key = storage_key]]

\* Map::load: [ok, val]; ok is FALSE when one of its two unwrap() calls
\* meets None and panics
MapLoad(st, key) ==
    LET storage_key == to_storage_key(key)
        got == get_kv(st, storage_key)
    IN IF ~got.some THEN [ok |-> FALSE, val |-> MapDefault]
       ELSE LET dec == MapDecode(got.v) IN
            IF ~dec.ok THEN [ok |-> FALSE, val |-> MapDefault]
            ELSE [ok |-> TRUE,
                  val |-> [dec.val EXCEPT !.storage_key = storage_key]]

\* Map::flush encoding a fresh map in place of self
MapFlush_Stale(st, m, ord) ==
    put_kv(st, to_storage_key(m.storage_key), Some(MapEncode(MapDefault, <<>>)))

\* Map::flush, under the iteration order ord: the store afterwards
\* Map::flush writing the stored table's entries along with its own
MapFlush_Merge(st, m, ord) ==
    LET storage_key == to_storage_key(m.storage_key)
        old == IF st[storage_key].some /\ MapDecode(st[storage_key].v).ok
               THEN MapDecode(st[storage_key].v).val.inner
               ELSE EmptyInner
        merged == [m EXCEPT !.inner =
                      [k \in DOMAIN old \cup DOMAIN m.inner |->
                          IF k \in DOMAIN m.inner THEN m.inner[k] ELSE old[k]]]
    IN put_kv(st, storage_key,
              Some(MapEncode(merged, CHOOSE o \in IterOrders(merged) : TRUE)))

MapFlush(st, m, ord) ==
    LET storage_key == to_storage_key(m.storage_key)
        data == MapEncode(m, ord)
    IN put_kv(st, storage_key, Some(data))

--------------------------------------------------------------------------
(* Bounds of the model *)

\* bytes by which the long name exceeds a storage key
ExtraLen == 1

\* bytes of garbage that follow the well-formed record of RawTrailing
MaxTrail == 1

\* the longest input of the key derivation under test
MaxNameLen == 34

\* map keys in the codec round trip: KeyOf(1) .. KeyOf(CodecMaxKey)
CodecMaxKey == 3

\* u32 keys that differ in more than their low byte
KeyOf(i) == i + 256 * (i - 1)

MapKeys == {KeyOf(1), KeyOf(2)}
MapValues == BOOLEAN

\* the instances a contract execution holds: slot 1 in Spec
AllSlots == {1, 2}
MainSlots == {1}

\* the names maps are bound to: b"my map", and a name longer than a key
NameShort == <<109, 121, 32, 109, 97, 112>>
NameLong == [i \in 1..(KEY_LEN + ExtraLen) |-> i]
Names == {NameShort, NameLong}

StoreKeys == {to_storage_key(n) : n \in Names} \cup {STORAGE_KEY_ZERO}

\* byte buffers a contract writes with Storage::put_kv next to its maps:
\* no count; a count of 2 and no pair; a pair cut short; a value byte that
\* is no bool; a well-formed record of one pair followed by more bytes
RawEmpty == <<>>
RawNoPairs == <<8>>
RawShortPair == <<4>> \o EncodeU32(KeyOf(1))
RawBadValue == <<4>> \o EncodeU32(KeyOf(1)) \o <<2>>
RawTrailing(n) == <<4>> \o EncodePair(KeyOf(1), TRUE) \o [i \in 1..n |-> 7]
RawBufs ==
    {RawEmpty, RawNoPairs, RawShortPair, RawBadValue}
        \cup {RawTrailing(n) : n \in 1..MaxTrail}

--------------------------------------------------------------------------
(* The state machine: one contract execution at a time over the store *)

NoMap == [live |-> FALSE, map |-> MapDefault]
Held(m) == [live |-> TRUE, map |-> m]
NoInstances == [s \in AllSlots |-> NoMap]

Idle == [stage |-> "idle"]
Op(op, slot, name, key) == [op |-> op, slot |-> slot, name |-> name, key |-> key]
Start == Op("start", 0, <<>>, 0)

InitState ==
    /\ store = [k \in StoreKeys |-> None]
    /\ inst = NoInstances
    /\ panicked = FALSE
    /\ last = Start
    /\ flushed = [k \in StoreKeys |-> None]

Init == InitState /\ probe = Idle

\* panic_handler: the panic information is dropped and the execution
\* aborts; nothing it held in memory survives
PanicAbort(op) ==
    /\ panicked' = TRUE
    /\ inst' = NoInstances
    /\ last' = op

\* let m = Map::new(name)
New(s, n) ==
    /\ ~panicked
    /\ inst' = [inst EXCEPT ![s] = Held(MapNew(n))]
    /\ last' = Op("new", s, n, 0)
    /\ UNCHANGED <<store, panicked, flushed, probe>>

\* let m = Map::load_or_create(name)
LoadOrCreate(s, n) ==
    /\ ~panicked
    /\ inst' = [inst EXCEPT ![s] = Held(MapLoadOrCreate(store, n))]
    /\ last' = Op("load_or_create", s, n, 0)
    /\ UNCHANGED <<store, panicked, flushed, probe>>

\* let m = Map::load(name)
Load(s, n) ==
    /\ ~panicked
    /\ LET r == MapLoad(store, n) IN
       IF r.ok
       THEN /\ inst' = [inst EXCEPT ![s] = Held(r.val)]
            /\ last' = Op("load", s, n, 0)
            /\ UNCHANGED panicked
       ELSE PanicAbort(Op("load", s, n, 0))
    /\ UNCHANGED <<store, flushed, probe>>

\* m.insert(k, v) that also writes the table through to the store
Insert_WriteThrough(s, k, v) ==
    /\ ~panicked
    /\ inst[s].live
    /\ inst' = [inst EXCEPT ![s] = Held(MapInsert(inst[s].map, k, v))]
    /\ \E ord \in IterOrders(MapInsert(inst[s].map, k, v)) :
           store' = MapFlush(store, MapInsert(inst[s].map, k, v), ord)
    /\ last' = Op("insert", s, <<>>, k)
    /\ UNCHANGED <<panicked, flushed, probe>>

\* m.insert(k, v)
Insert(s, k, v) ==
    /\ ~panicked
    /\ inst[s].live
    /\ inst' = [inst EXCEPT ![s] = Held(MapInsert(inst[s].map, k, v))]
    /\ last' = Op("insert", s, <<>>, k)
    /\ UNCHANGED <<store, panicked, flushed, probe>>

\* m.remove(&k)
Remove(s, k) ==
    /\ ~panicked
    /\ inst[s].live
    /\ inst' = [inst EXCEPT ![s] = Held(MapRemove(inst[s].map, k))]
    /\ last' = Op("remove", s, <<>>, k)
    /\ UNCHANGED <<store, panicked, flushed, probe>>

\* m.flush()
Flush(s) ==
    /\ ~panicked
    /\ inst[s].live
    /\ \E ord \in IterOrders(inst[s].map) :
           store' = MapFlush(store, inst[s].map, ord)
    /\ flushed' = [flushed EXCEPT ![inst[s].map.storage_key] =
                       Some(inst[s].map.inner)]
    /\ last' = Op("flush", s, <<>>, 0)
    /\ UNCHANGED <<inst, panicked, probe>>

\* Storage::put_kv(&StorageKey::from(name), Some(&raw))
PutRaw(n, raw) ==
    /\ ~panicked
    /\ store' = put_kv(store, StorageKeyFrom(n), Some(raw))
    /\ flushed' = [flushed EXCEPT ![StorageKeyFrom(n)] = None]
    /\ last' = Op("put_kv", 0, n, 0)
    /\ UNCHANGED <<inst, panicked, probe>>

\* the execution ends, by returning or by the abort of a panic, and the
\* next one starts with no instance in memory
NewExecution ==
    /\ inst' = NoInstances
    /\ panicked' = FALSE
    /\ last' = Start
    /\ UNCHANGED <<store, flushed, probe>>

Next ==
    \/ \E s \in MainSlots, n \in Names : New(s, n)
    \/ \E s \in MainSlots, n \in Names : LoadOrCreate(s, n)
    \/ \E s \in MainSlots, n \in Names : Load(s, n)
    \/ \E s \in MainSlots, k \in MapKeys, v \in MapValues : Insert(s, k, v)
    \/ \E s \in MainSlots, k \in MapKeys : Remove(s, k)
    \/ \E s \in MainSlots : Flush(s)
    \/ \E n \in Names, raw \in RawBufs : PutRaw(n, raw)
    \/ NewExecution

Spec == Init /\ [][Next]_vars

--------------------------------------------------------------------------
(* The key derivation on its own: an input is drawn, then derived *)

\* inputs of every length up to MaxNameLen: bytes that tell their position,
\* a constant non-zero byte, and zero bytes
KeyInputs ==
    {[i \in 1..n |-> i] : n \in 0..MaxNameLen}
        \cup {[i \in 1..n |-> 255] : n \in 0..MaxNameLen}
        \cup {[i \in 1..n |-> 0] : n \in 0..MaxNameLen}

InitKey ==
    /\ InitState
    /\ probe \in {[stage |-> "input", arg |-> b, out |-> <<>>] : b \in KeyInputs}

\* StorageKey::from(arg)
Derive ==
    /\ probe.stage = "input"
    /\ probe' = [probe EXCEPT !.stage = "derived", !.out = StorageKeyFrom(probe.arg)]
    /\ UNCHANGED <<store, inst, panicked, last, flushed>>

NextKey == Derive

SpecKey == InitKey /\ [][NextKey]_vars

--------------------------------------------------------------------------
(* The codec on its own: a map is built, encoded, and the bytes decoded *)

CodecKeys == {KeyOf(i) : i \in 1..CodecMaxKey}

InitCodec ==
    /\ InitState
    /\ probe = [stage |-> "build", map |-> MapDefault, bytes |-> <<>>,
                dec |-> Decoded(MapDefault, <<>>)]

\* map.insert(k, v) while the map is built
CodecInsert(k, v) ==
    /\ probe.stage = "build"
    /\ k \notin DOMAIN probe.map.inner
    /\ probe' = [probe EXCEPT !.map = MapInsert(probe.map, k, v)]
    /\ UNCHANGED <<store, inst, panicked, last, flushed>>

\* let buf = Encode::encode(&map)
CodecEncode ==
    /\ probe.stage = "build"
    /\ \E ord \in IterOrders(probe.map) :
           probe' = [probe EXCEPT !.stage = "encoded",
                                  !.bytes = MapEncode(probe.map, ord)]
    /\ UNCHANGED <<store, inst, panicked, last, flushed>>

\* Map::decode(&mut &buf[..])
CodecDecode ==
    /\ probe.stage = "encoded"
    /\ probe' = [probe EXCEPT !.stage = "decoded", !.dec = MapDecode(probe.bytes)]
    /\ UNCHANGED <<store, inst, panicked, last, flushed>>

NextCodec ==
    \/ \E k \in CodecKeys, v \in MapValues : CodecInsert(k, v)
    \/ CodecEncode
    \/ CodecDecode

SpecCodec == InitCodec /\ [][NextCodec]_vars

--------------------------------------------------------------------------
(* The whole Map API over two keys, with no other writer of the store.    *)
(* Maps are made with Map::new, Map::load_or_create and Map::default and  *)
(* by decoding a stored record with Storage::get; b"" is only ever loaded *)

\* the empty name, b""
NameEmpty == <<>>

\* names a map is created under, and names a map is loaded from
ApiNames == {NameShort}
ApiLoadNames == {NameShort, NameEmpty}

\* let m = Map::default()
Default(s) ==
    /\ ~panicked
    /\ inst' = [inst EXCEPT ![s] = Held(MapDefault)]
    /\ last' = Op("default", s, <<>>, 0)
    /\ UNCHANGED <<store, panicked, flushed, probe>>

\* Storage::get with V = Map<K, V>: the record decoded as a map, which
\* nothing binds to the key it was read from
StorageGetMap(st, key) ==
    LET k == StorageKeyFrom(key)
        got == get_kv(st, k)
    IN IF got.some
       THEN LET dec == MapDecode(got.v) IN
            IF dec.ok THEN Some(dec.val) ELSE None
       ELSE None

\* Storage::get binding the decoded map to the key it was read from
GetMap_Rebind(s, n) ==
    /\ ~panicked
    /\ StorageGetMap(store, n).some
    /\ inst' = [inst EXCEPT ![s] =
                   Held([StorageGetMap(store, n).v EXCEPT
                            !.storage_key = StorageKeyFrom(n)])]
    /\ last' = Op("storage_get", s, n, 0)
    /\ UNCHANGED <<store, panicked, flushed, probe>>

\* if let Some(m) = Storage::get(&name)
GetMap(s, n) ==
    /\ ~panicked
    /\ StorageGetMap(store, n).some
    /\ inst' = [inst EXCEPT ![s] = Held(StorageGetMap(store, n).v)]
    /\ last' = Op("storage_get", s, n, 0)
    /\ UNCHANGED <<store, panicked, flushed, probe>>

\* m.get(&k)
Get(s, k) ==
    /\ ~panicked
    /\ inst[s].live
    /\ last' = Op("get", s, <<>>, k)
    /\ UNCHANGED <<store, inst, panicked, flushed, probe>>

\* *m.get_mut(&k).unwrap() = v, when there is an entry to write through
GetMut(s, k, v) ==
    /\ ~panicked
    /\ inst[s].live
    /\ MapGet(inst[s].map, k).some
    /\ inst' = [inst EXCEPT ![s] = Held([inst[s].map EXCEPT !.inner[k] = v])]
    /\ last' = Op("get_mut", s, <<>>, k)
    /\ UNCHANGED <<store, panicked, flushed, probe>>

\* m.contains_key(&k)
ContainsKey(s, k) ==
    /\ ~panicked
    /\ inst[s].live
    /\ last' = Op("contains_key", s, <<>>, k)
    /\ UNCHANGED <<store, inst, panicked, flushed, probe>>

\* m.len()
Len_(s) ==
    /\ ~panicked
    /\ inst[s].live
    /\ last' = Op("len", s, <<>>, 0)
    /\ UNCHANGED <<store, inst, panicked, flushed, probe>>

\* m.is_empty()
IsEmpty(s) ==
    /\ ~panicked
    /\ inst[s].live
    /\ last' = Op("is_empty", s, <<>>, 0)
    /\ UNCHANGED <<store, inst, panicked, flushed, probe>>

\* for (k, v) in m.iter()
Iter(s) ==
    /\ ~panicked
    /\ inst[s].live
    /\ last' = Op("iter", s, <<>>, 0)
    /\ UNCHANGED <<store, inst, panicked, flushed, probe>>

NextApi ==
    \/ \E s \in MainSlots, n \in ApiNames : New(s, n)
    \/ \E s \in MainSlots : Default(s)
    \/ \E s \in MainSlots, n \in ApiNames : LoadOrCreate(s, n)
    \/ \E s \in MainSlots, n \in ApiLoadNames : Load(s, n)
    \/ \E s \in MainSlots, n \in ApiNames : GetMap(s, n)
    \/ \E s \in MainSlots, k \in MapKeys, v \in MapValues : Insert(s, k, v)
    \/ \E s \in MainSlots, k \in MapKeys : Remove(s, k)
    \/ \E s \in MainSlots, k \in MapKeys : Get(s, k)
    \/ \E s \in MainSlots, k \in MapKeys, v \in MapValues : GetMut(s, k, v)
    \/ \E s \in MainSlots, k \in MapKeys : ContainsKey(s, k)
    \/ \E s \in MainSlots : Len_(s)
    \/ \E s \in MainSlots : IsEmpty(s)
    \/ \E s \in MainSlots : Iter(s)
    \/ \E s \in MainSlots : Flush(s)
    \/ NewExecution

SpecApi == Init /\ [][NextApi]_vars

--------------------------------------------------------------------------
(* Nested maps, Map<u32, Map<u32, bool>>: the outer map's value type is    *)
(* Map, so impl Encode/Decode for Map is also the value codec.  An outer   *)
(* map is built from inner maps, encoded, and the bytes decoded.           *)

\* impl Encode for Map<u32, Map<u32, bool>>: the count, then for each entry
\* in the outer iteration order ord the key and the inner map, itself
\* encoded under its own iteration order iords[key]
NestedEncode(outer, ord, iords) ==
    LET RECURSIVE Items(_)
        Items(i) ==
            IF i > Len(ord) THEN <<>>
            ELSE EncodeU32(ord[i])
                     \o MapEncode(outer.inner[ord[i]], iords[ord[i]])
                     \o Items(i + 1)
    IN EncodeCompact(Len(ord)) \o Items(1)

\* impl Decode for Map<u32, Map<u32, bool>>: the count, then that many
\* (u32, Map) pairs, each inner map read from what its key left; the pairs
\* are inserted one by one into Map::default()
NestedDecode(buf) ==
    LET dl == DecodeCompact(buf)
        RECURSIVE Items(_, _, _)
        Items(n, b, acc) ==
            IF n = 0 THEN Decoded(acc, b)
            ELSE LET dk == DecodeU32(b) IN
                 IF ~dk.ok THEN DecodeFail
                 ELSE LET dv == MapDecode(dk.rest) IN
                      IF ~dv.ok THEN DecodeFail
                      ELSE Items(n - 1, dv.rest, MapInsert(acc, dk.val, dv.val))
    IN IF ~dl.ok THEN DecodeFail ELSE Items(dl.val, dl.rest, MapDefault)

\* the inner maps an outer entry may hold: Map::default() after any inserts
InnerMaps ==
    {[inner |-> f, storage_key |-> STORAGE_KEY_ZERO] :
        f \in UNION {[d -> MapValues] : d \in SUBSET MapKeys}}

InitNested ==
    /\ InitState
    /\ probe = [stage |-> "build", map |-> MapDefault, bytes |-> <<>>,
                dec |-> Decoded(MapDefault, <<>>)]

\* map.insert(i, nested_map)
NestedInsert(i, m) ==
    /\ probe.stage = "build"
    /\ i \notin DOMAIN probe.map.inner
    /\ probe' = [probe EXCEPT !.map = MapInsert(probe.map, i, m)]
    /\ UNCHANGED <<store, inst, panicked, last, flushed>>

\* let buf = Encode::encode(&map)
NestedEncodeStep ==
    /\ probe.stage = "build"
    /\ \E ord \in IterOrders(probe.map) :
       \E iords \in [DOMAIN probe.map.inner ->
                        UNION {IterOrders(m) : m \in InnerMaps}] :
           /\ \A i \in DOMAIN probe.map.inner :
                  iords[i] \in IterOrders(probe.map.inner[i])
           /\ probe' = [probe EXCEPT
                            !.stage = "encoded",
                            !.bytes = NestedEncode(probe.map, ord, iords)]
    /\ UNCHANGED <<store, inst, panicked, last, flushed>>

\* Map::decode(&mut &buf[..])
NestedDecodeStep ==
    /\ probe.stage = "encoded"
    /\ probe' = [probe EXCEPT !.stage = "decoded",
                              !.dec = NestedDecode(probe.bytes)]
    /\ UNCHANGED <<store, inst, panicked, last, flushed>>

NextNested ==
    \/ \E i \in MapKeys, m \in InnerMaps : NestedInsert(i, m)
    \/ NestedEncodeStep
    \/ NestedDecodeStep

SpecNested == InitNested /\ [][NextNested]_vars

--------------------------------------------------------------------------
(* The Storage API on its own: typed put/get/remove of u32 values and the  *)
(* two ABI calls.  probe keeps what the last call passed and returned, the *)
(* store as it was before the call, and for each key the value of the last *)
(* Storage::put not overwritten since.                                     *)

\* the u32 values put
StoreValues == {0} \cup MapKeys

\* the byte strings handed to put_kv directly
StoreBufs == {RawEmpty, RawNoPairs}

\* the Option<&[u8]> values handed to put_kv directly
StoreArgs == {None} \cup {Some(b) : b \in StoreBufs}

\* Storage::get::<_, u32>(name)
StorageGetU32(st, key) ==
    LET k == StorageKeyFrom(key)
        got == get_kv(st, k)
    IN IF got.some
       THEN LET dec == DecodeU32(got.v)
            IN IF dec.ok THEN Some(dec.val) ELSE None
       ELSE None

InitStore ==
    /\ InitState
    /\ probe = [key |-> STORAGE_KEY_ZERO, value |-> None,
                args |-> put_kv_args(None), ret |-> None, prev |-> store,
                put |-> [k \in StoreKeys |-> None], written |-> {}]

\* one call of put_kv(key, value), by whichever operation; typed is what a
\* later typed read of the key is known to return
Write(op, n, value, typed) ==
    LET k == StorageKeyFrom(n) IN
    /\ store' = put_kv(store, k, value)
    /\ probe' = [probe EXCEPT !.key = k, !.value = value,
                              !.args = put_kv_args(value),
                              !.prev = store,
                              !.put[k] = typed,
                              !.written = probe.written \cup {k}]
    /\ last' = Op(op, 0, n, 0)
    /\ UNCHANGED <<inst, panicked, flushed>>

\* Storage::put(name, v)
StoragePut(n, v) == Write("storage_put", n, Some(EncodeU32(v)), Some(v))

\* Storage::remove(name) handing put_kv no value
StorageRemove_Delete(n) == Write("storage_remove", n, None, None)

\* Storage::remove(name)
StorageRemove(n) == Write("storage_remove", n, Some(StorageKeyZero), None)

\* Storage::put_kv(&key, value)
PutKv(n, value) == Write("put_kv", n, value, None)

\* Storage::get::<_, u32>(name)
StorageGet(n) ==
    /\ probe' = [probe EXCEPT !.key = StorageKeyFrom(n),
                              !.ret = StorageGetU32(store, n),
                              !.prev = store]
    /\ last' = Op("storage_get", 0, n, 0)
    /\ UNCHANGED <<store, inst, panicked, flushed>>

\* Storage::get_kv(&key)
GetKv(n) ==
    /\ probe' = [probe EXCEPT !.key = StorageKeyFrom(n),
                              !.ret = get_kv(store, StorageKeyFrom(n)),
                              !.prev = store]
    /\ last' = Op("get_kv", 0, n, 0)
    /\ UNCHANGED <<store, inst, panicked, flushed>>

NextStore ==
    \/ \E n \in Names, v \in StoreValues : StoragePut(n, v)
    \/ \E n \in Names : StorageRemove(n)
    \/ \E n \in Names, value \in StoreArgs : PutKv(n, value)
    \/ \E n \in Names : StorageGet(n)
    \/ \E n \in Names : GetKv(n)

SpecStore == InitStore /\ [][NextStore]_vars

--------------------------------------------------------------------------
(* Two instances of one key in one execution.  probe remembers, for each   *)
(* slot, the table its instance held when it was last flushed.             *)

TwoNames == {NameShort}

InitTwo ==
    /\ InitState
    /\ probe = [flushedAt |-> [s \in AllSlots |-> None]]

\* m.flush() by the instance in slot s
FlushBy(s) ==
    /\ ~panicked
    /\ inst[s].live
    /\ \E ord \in IterOrders(inst[s].map) :
           store' = MapFlush(store, inst[s].map, ord)
    /\ flushed' = [flushed EXCEPT ![inst[s].map.storage_key] =
                       Some(inst[s].map.inner)]
    /\ probe' = [probe EXCEPT !.flushedAt[s] = Some(inst[s].map.inner)]
    /\ last' = Op("flush", s, <<>>, 0)
    /\ UNCHANGED <<inst, panicked>>

NextTwo ==
    \/ \E s \in AllSlots, n \in TwoNames : LoadOrCreate(s, n)
    \/ \E s \in AllSlots, n \in TwoNames : Load(s, n)
    \/ \E s \in AllSlots, k \in MapKeys, v \in MapValues : Insert(s, k, v)
    \/ \E s \in AllSlots : FlushBy(s)
    \/ NewExecution

SpecTwo == InitTwo /\ [][NextTwo]_vars

--------------------------------------------------------------------------
(* Names that collide.  The instance in slot 1 is made with Map::new under *)
(* a writer name and flushed; slot 2 only loads, under reader names, none  *)
(* of which is a writer name.                                              *)

\* b"my map"; a name longer than a key; its first KEY_LEN bytes
WriterNames == {NameShort, NameLong, Take(NameLong, KEY_LEN)}

\* b"my map\0"; the long name with other bytes after the first KEY_LEN
ReaderNames ==
    {NameShort \o Zeros(ExtraLen),
     [i \in 1..(KEY_LEN + ExtraLen) |-> IF i <= KEY_LEN THEN i ELSE 0]}

CollideNames == WriterNames \cup ReaderNames

\* a name's first KEY_LEN bytes after zero-padding
PaddedPrefix(n) == Take(n \o Zeros(KEY_LEN), KEY_LEN)

NextCollide ==
    \/ \E n \in WriterNames : New(1, n)
    \/ \E k \in MapKeys, v \in MapValues : Insert(1, k, v)
    \/ Flush(1)
    \/ \E n \in ReaderNames : Load(2, n)
    \/ NewExecution

SpecCollide == Init /\ [][NextCollide]_vars

--------------------------------------------------------------------------
(* Binding and flushing under names shorter than, as long as, and longer   *)
(* than a key, through each of the three constructors that take a name.    *)

\* b"my map"; KEY_LEN bytes; more than KEY_LEN bytes
BindNames == {NameShort, Take(NameLong, KEY_LEN), NameLong}

NextBind ==
    \/ \E s \in MainSlots, n \in BindNames : New(s, n)
    \/ \E s \in MainSlots, n \in BindNames : LoadOrCreate(s, n)
    \/ \E s \in MainSlots, n \in BindNames : Load(s, n)
    \/ \E s \in MainSlots, k \in MapKeys, v \in MapValues : Insert(s, k, v)
    \/ \E s \in MainSlots : Flush(s)
    \/ NewExecution

SpecBind == Init /\ [][NextBind]_vars

--------------------------------------------------------------------------
(* The in-memory table on its own: a Map::default() takes inserts and      *)
(* removes, which probe logs in order; or a record of pairs, repeated keys *)
(* allowed, is encoded as a Vec and decoded as a Map.                      *)

\* the longest logged sequence of inserts and removes
MaxOps == 4

\* the most pairs in a decoded record
MaxPairs == 3

\* the sequences of at most n elements of S
SeqsUpTo(S, n) == UNION {[1..m -> S] : m \in 0..n}

\* the value the logged operations leave under key k: that of the latest
\* insert of k if no remove of k follows it
Expected(log, k) ==
    LET touches == {i \in 1..Len(log) : log[i].key = k} IN
    IF touches = {} THEN None
    ELSE LET i == CHOOSE j \in touches : \A l \in touches : l <= j IN
         IF log[i].op = "insert" THEN Some(log[i].value) ELSE None

\* the keys the logged operations leave present
ExpectedKeys(log) == {k \in MapKeys : Expected(log, k).some}

\* a record of pairs as a log of inserts
AsInserts(pairs) ==
    [i \in 1..Len(pairs) |->
        [op |-> "insert", key |-> pairs[i][1], value |-> pairs[i][2]]]

InitAssoc ==
    /\ InitState
    /\ probe = [stage |-> "ops", map |-> MapDefault, log |-> <<>>,
                pairs |-> <<>>, dec |-> Decoded(MapDefault, <<>>)]

\* map.insert(k, v)
AssocInsert(k, v) ==
    /\ probe.stage = "ops"
    /\ Len(probe.log) < MaxOps
    /\ probe' = [probe EXCEPT
                    !.map = MapInsert(probe.map, k, v),
                    !.log = Append(probe.log,
                                   [op |-> "insert", key |-> k, value |-> v])]
    /\ UNCHANGED <<store, inst, panicked, last, flushed>>

\* map.remove(&k)
AssocRemove(k) ==
    /\ probe.stage = "ops"
    /\ Len(probe.log) < MaxOps
    /\ probe' = [probe EXCEPT
                    !.map = MapRemove(probe.map, k),
                    !.log = Append(probe.log,
                                   [op |-> "remove", key |-> k, value |-> FALSE])]
    /\ UNCHANGED <<store, inst, panicked, last, flushed>>

\* Map::decode(&mut &Encode::encode(&pairs)[..]) for a Vec of pairs
AssocDecode(pairs) ==
    /\ probe.stage = "ops"
    /\ probe.log = <<>>
    /\ probe' = [probe EXCEPT !.stage = "decoded", !.pairs = pairs,
                              !.dec = MapDecode(EncodeVec(pairs))]
    /\ UNCHANGED <<store, inst, panicked, last, flushed>>

NextAssoc ==
    \/ \E k \in MapKeys, v \in MapValues : AssocInsert(k, v)
    \/ \E k \in MapKeys : AssocRemove(k)
    \/ \E pairs \in SeqsUpTo(MapKeys \X MapValues, MaxPairs) : AssocDecode(pairs)

SpecAssoc == InitAssoc /\ [][NextAssoc]_vars

--------------------------------------------------------------------------
(* util::random_in_range: src/src/util.rs.  The u64 of the code is an      *)
(* unsigned word of WordBits bits here; sums are reduced modulo 2^WordBits *)
(* where the build wraps.                                                  *)

\* the width of the unsigned word standing for u64
WordBits == 3

\* u64::max_value() at that width
WORD_MAX == 2 ^ WordBits - 1

Words == 0..WORD_MAX

\* a call that panicked, a call that returned v
Panicked(why) == [panic |-> TRUE, why |-> why, v |-> 0]
Returned(v) == [panic |-> FALSE, why |-> "", v |-> v]

\* util::random_in_range for the seed word r = bytes_to_u64(seed[0..8]).
\* r % max panics when max is 0; min + (r % max) past the word's range
\* panics in a build with overflow checks and wraps in one without
random_in_range(min, max, r, overflow_checks) ==
    IF max = 0 THEN Panicked("remainder by zero")
    ELSE LET sum == min + (r % max) IN
         IF sum <= WORD_MAX THEN Returned(sum)
         ELSE IF overflow_checks THEN Panicked("add overflow")
         ELSE Returned(sum % (2 ^ WordBits))

InitRand ==
    /\ InitState
    /\ probe = [stage |-> "idle", min |-> 0, max |-> 0, r |-> 0,
                out |-> Returned(0)]

\* let x = random_in_range(min, max), the block's seed giving r
RandomInRange(min, max, r) ==
    /\ \E overflow_checks \in BOOLEAN :
           probe' = [stage |-> "called", min |-> min, max |-> max, r |-> r,
                     out |-> random_in_range(min, max, r, overflow_checks)]
    /\ UNCHANGED <<store, inst, panicked, last, flushed>>

NextRand ==
    \E min \in Words, max \in Words, r \in Words :
        min <= max /\ RandomInRange(min, max, r)

SpecRand == InitRand /\ [][NextRand]_vars

--------------------------------------------------------------------------
(* Properties *)

\* the storage key the last constructor call asked for
RequestedKey == to_storage_key(last.name)

\* the last operation was Map::load or Map::load_or_create
Loaded == last.op \in {"load", "load_or_create"}

\* records that are no well-formed Map<u32, bool> record: too short for
\* their count, or holding a value byte that is no bool
MalformedBufs == {RawEmpty, RawNoPairs, RawShortPair, RawBadValue}

\* well-formed records followed by garbage
TrailingBufs == {RawTrailing(n) : n \in 1..MaxTrail}

\* C1: load_or_create of a name with no record yields an empty map, and once
\* an instance has been flushed under a name, load and load_or_create of that
\* name succeed and return exactly the table the instance held at the flush.
C1_FlushThenReload ==
    /\ (last.op = "load_or_create" /\ ~store[RequestedKey].some)
           => /\ inst[last.slot].live
              /\ MapIsEmpty(inst[last.slot].map)
              /\ MapLen(inst[last.slot].map) = 0
    /\ (Loaded /\ flushed[RequestedKey].some)
           => /\ ~panicked
              /\ inst[last.slot].live
              /\ inst[last.slot].map.inner = flushed[RequestedKey].v

C1_Witness ==
    /\ last.op = "load"
    /\ flushed[RequestedKey].some
    /\ DOMAIN flushed[RequestedKey].v = MapKeys
    /\ inst[last.slot].live
    /\ inst[last.slot].map.inner = flushed[RequestedKey].v

\* C2: decoding the bytes of an encoded map succeeds and yields the map's
\* key-value content, whatever order encode iterated the entries in.
C2_CodecRoundTrip ==
    probe.stage = "decoded"
        => /\ probe.dec.ok
           /\ probe.dec.val.inner = probe.map.inner
           /\ probe.dec.rest = <<>>

C2_Witness ==
    /\ probe.stage = "decoded"
    /\ DOMAIN probe.map.inner = CodecKeys
    /\ probe.dec.ok
    /\ probe.bytes # MapEncode(probe.map, [i \in 1..CodecMaxKey |-> KeyOf(i)])

\* C3: StorageKey::from(b) is 32 bytes: b left-aligned and zero-padded when
\* b has at most 32 bytes, the first 32 bytes of b when it has more.
C3_KeyDerivation ==
    probe.stage = "derived"
        => LET b == probe.arg
               key == probe.out
           IN /\ Len(key) = 32
              /\ \A i \in 1..32 :
                     key[i] = IF i <= Len(b) THEN b[i] ELSE 0

C3_Witness ==
    /\ probe.stage = "derived"
    /\ Len(probe.arg) > 32
    /\ probe.arg[33] # 0
    /\ Len(probe.out) = 32

\* C4: the instance load_or_create returns, and the one load returns when it
\* succeeds, is bound to the key derived from the requested name, not to the
\* all-zero key Decode assigns.
C4_BoundKeyIsRequested ==
    (Loaded /\ ~panicked)
        => /\ inst[last.slot].live
           /\ inst[last.slot].map.storage_key = RequestedKey

C4_Witness ==
    /\ last.op = "load_or_create"
    /\ store[RequestedKey].some
    /\ MapLen(inst[last.slot].map) > 0
    /\ inst[last.slot].map.storage_key = RequestedKey
    /\ inst[last.slot].map.storage_key # STORAGE_KEY_ZERO

\* C5: Map::load of a key with no record fails: the execution aborts and no
\* map, in particular no empty map, is returned.
C5_LoadAbsentFails ==
    (last.op = "load" /\ ~store[RequestedKey].some)
        => /\ panicked
           /\ \A s \in AllSlots : ~inst[s].live

C5_Witness ==
    /\ last.op = "load"
    /\ ~store[RequestedKey].some
    /\ panicked

\* C6: Map::load_or_create of a key that holds a malformed record fails and
\* returns no map.
C6_LoadOrCreateMalformedFails ==
    (last.op = "load_or_create"
        /\ store[RequestedKey].some
        /\ store[RequestedKey].v \in MalformedBufs)
        => /\ panicked
           /\ ~inst[last.slot].live

\* C7: Map::load of a key that holds a record shorter than its count implies,
\* or with a value that fails its own decode, fails and returns no map.
C7_LoadMalformedFails ==
    (last.op = "load"
        /\ store[RequestedKey].some
        /\ store[RequestedKey].v \in MalformedBufs)
        => /\ panicked
           /\ inst = NoInstances

C7_Witness ==
    /\ last.op = "load"
    /\ store[RequestedKey].some
    /\ store[RequestedKey].v = RawBadValue
    /\ panicked

\* what made the last Map::load fail, if it had a reason to
LoadFailure ==
    IF last.op # "load" THEN "none"
    ELSE IF ~store[RequestedKey].some THEN "Unavailable"
    ELSE IF store[RequestedKey].v \in MalformedBufs THEN "DecodeError"
    ELSE "none"

\* C8, as claimed: a load that fails for absence or for undecodable bytes
\* returns to its caller, which goes on running with a typed result in hand.
C8_TypedResultReachesCaller ==
    LoadFailure # "none" => ~panicked

\* C8, amended: both failures of Map::load abort the execution by the same
\* panic; the caller gets no result and what is left is the same for both.
C8_BothFailuresAbortAlike ==
    LoadFailure \in {"Unavailable", "DecodeError"}
        => <<panicked, inst>> = <<TRUE, NoInstances>>

C8_Witness ==
    /\ LoadFailure = "DecodeError"
    /\ store[RequestedKey].v = RawNoPairs
    /\ panicked
    /\ inst = NoInstances

\* C9: loading a key whose record is a well-formed record followed by extra
\* bytes fails instead of returning the map decoded from the prefix.
C9_TrailingGarbageFails ==
    (Loaded
        /\ store[RequestedKey].some
        /\ store[RequestedKey].v \in TrailingBufs)
        => panicked

\* after remove(k) the instance has no entry for k
C10_AfterRemove ==
    last.op = "remove"
        => /\ inst[last.slot].live
           /\ MapGet(inst[last.slot].map, last.key) = None
           /\ ~MapContainsKey(inst[last.slot].map, last.key)

\* a remove leaves every other entry and the bound key as they were, and
\* changes nothing when the key has no entry
C10_RemoveStep ==
    last'.op = "remove"
        => LET old == inst[last'.slot].map
               new == inst'[last'.slot].map
           IN /\ \A j \in MapKeys \ {last'.key} : MapGet(new, j) = MapGet(old, j)
              /\ new.storage_key = old.storage_key
              /\ ~MapContainsKey(old, last'.key) => new = old

\* a flush after remove(k) leaves the instance alone, and a reload of what
\* it wrote has no entry for k
C10_FlushAfterRemove ==
    (last.op = "remove" /\ last'.op = "flush" /\ last'.slot = last.slot)
        => /\ inst' = inst
           /\ \A n \in Names :
                  to_storage_key(n) = inst[last.slot].map.storage_key
                      => LET r == MapLoad(store', n)
                         IN r.ok /\ MapGet(r.val, last.key) = None

\* C10: remove semantics, in the state after a remove, across the remove
\* step, and across the flush and reload that follow it.
C10_RemoveSemantics ==
    /\ []C10_AfterRemove
    /\ [][C10_RemoveStep]_vars
    /\ [][C10_FlushAfterRemove]_vars

C10_Witness ==
    /\ last.op = "remove"
    /\ flushed[inst[last.slot].map.storage_key].some
    /\ last.key \in DOMAIN flushed[inst[last.slot].map.storage_key].v
    /\ ~MapContainsKey(inst[last.slot].map, last.key)
    /\ MapLen(inst[last.slot].map) = 1

\* the Map operations that work on the in-memory table alone
MemOps ==
    {"new", "default", "insert", "remove", "get", "get_mut", "contains_key",
     "len", "is_empty", "iter"}

\* the record under the bound key of slot s decodes to the table slot s holds
InSyncIn(st, in, s) ==
    /\ in[s].live
    /\ st[in[s].map.storage_key].some
    /\ LET dec == MapDecode(st[in[s].map.storage_key].v)
       IN dec.ok /\ dec.val.inner = in[s].map.inner

InSync(s) == InSyncIn(store, inst, s)

\* C11: new, default, insert, remove, get, get_mut, contains_key, len,
\* is_empty and iter leave the record under every key as it was, and a step
\* of the Map API that changes the store is a flush.
C11_InMemoryOnly ==
    [][/\ last'.op \in MemOps => store' = store
       /\ store' # store => last'.op = "flush"]_vars

C11_Witness ==
    /\ last.op \in {"insert", "get_mut"}
    /\ flushed[inst[last.slot].map.storage_key].some
    /\ DOMAIN flushed[inst[last.slot].map.storage_key].v = MapKeys
    /\ inst[last.slot].map.inner # flushed[inst[last.slot].map.storage_key].v
    /\ MapDecode(store[inst[last.slot].map.storage_key].v).val.inner
           = flushed[inst[last.slot].map.storage_key].v

\* after a flush the bytes under the bound key decode to the table held
C12_AfterFlush ==
    \A s \in MainSlots : (last'.op = "flush" /\ last'.slot = s) => InSyncIn(store', inst', s)

\* a flush writes one present record, the encoding of the whole table, under
\* the bound key and changes neither the instance nor any other key
C12_FlushStep ==
    last'.op = "flush"
        => LET m == inst[last'.slot].map
               rec == store'[m.storage_key]
           IN /\ inst' = inst
              /\ \A k \in DOMAIN store \ {m.storage_key} : store'[k] = store[k]
              /\ rec.some
              /\ Len(rec.v) = 1 + 5 * MapLen(m)
              /\ MapDecode(rec.v).ok
              /\ MapDecode(rec.v).val.inner = m.inner
              /\ MapDecode(rec.v).rest = <<>>

\* the operations that act on the instance a slot already holds
SameInstanceOps ==
    {"insert", "remove", "get", "get_mut", "contains_key", "len", "is_empty",
     "iter", "flush"}

C12_StaysInSync ==
    \A s \in MainSlots :
        (/\ InSync(s)
         /\ last'.slot = s
         /\ last'.op \in SameInstanceOps \ {"insert", "remove", "get_mut"})
            => InSyncIn(store', inst', s)

LoadNow(n) == MapLoad(store, n)

\* C13: at every point of every sequence of Map operations, a Map::load of a
\* key returns the table the most recently flushed instance of that key held
\* at its flush, bound to that key, and fails if the key was never flushed;
\* inserts and removes made since are not visible to it.
C13_FlushIsTheCommitPoint ==
    \A n \in ApiLoadNames :
        IF flushed[to_storage_key(n)].some
        THEN /\ LoadNow(n).ok
             /\ LoadNow(n).val.inner = flushed[to_storage_key(n)].v
             /\ LoadNow(n).val.storage_key = to_storage_key(n)
        ELSE ~LoadNow(n).ok

\* a remove after a flush of two entries: the instance holds one entry, a
\* load would still return both
C13_Witness ==
    /\ last.op = "remove"
    /\ inst[last.slot].live
    /\ MapLen(inst[last.slot].map) = 1
    /\ flushed[inst[last.slot].map.storage_key].some
    /\ DOMAIN flushed[inst[last.slot].map.storage_key].v = MapKeys
    /\ \E n \in ApiLoadNames :
           /\ to_storage_key(n) = inst[last.slot].map.storage_key
           /\ LoadNow(n).ok
           /\ MapLen(LoadNow(n).val) = 2

\* C14: decoding the encoding of an outer map of maps succeeds, reads all
\* the bytes, and yields the same outer keys, each holding an inner map
\* with the same entries as the original, also when two outer keys hold
\* inner maps of equal content.
C14_NestedRoundTrip ==
    probe.stage = "decoded"
        => /\ probe.dec.ok
           /\ probe.dec.rest = <<>>
           /\ DOMAIN probe.dec.val.inner = DOMAIN probe.map.inner
           /\ \A i \in DOMAIN probe.map.inner :
                  probe.dec.val.inner[i].inner = probe.map.inner[i].inner

\* two outer keys holding equal two-entry inner maps, decoded
C14_Witness ==
    /\ probe.stage = "decoded"
    /\ probe.dec.ok
    /\ DOMAIN probe.map.inner = MapKeys
    /\ \A i, j \in MapKeys : probe.map.inner[i] = probe.map.inner[j]
    /\ \A i \in MapKeys : DOMAIN probe.map.inner[i].inner = MapKeys
    /\ \A i \in MapKeys : DOMAIN probe.dec.val.inner[i].inner = MapKeys

\* the operations of the Storage API that call put_kv
StoreWriteOps == {"storage_put", "storage_remove", "put_kv"}

C16_ReadYourWrites ==
    /\ \A n \in Names :
           /\ probe.put[StorageKeyFrom(n)].some
                  => StorageGetU32(store, n) = probe.put[StorageKeyFrom(n)]
           /\ StorageKeyFrom(n) \notin probe.written
                  => StorageGetU32(store, n) = None
    /\ last.op = "storage_get"
           => /\ probe.put[probe.key].some => probe.ret = probe.put[probe.key]
              /\ probe.key \notin probe.written => probe.ret = None

\* a get returning a nonzero value put earlier, after a put of another value
\* to the other key
C16_Witness ==
    /\ last.op = "storage_get"
    /\ probe.ret.some
    /\ probe.ret.v \in MapKeys
    /\ probe.put[probe.key] = probe.ret
    /\ \E k \in StoreKeys \ {probe.key} :
           /\ probe.put[k].some
           /\ probe.put[k] # probe.ret

\* C17: Storage::remove hands put_kv a present payload of 32 zero bytes for
\* the derived key, changes no other key, and afterwards get_kv of that key
\* reports a present record of 32 zero bytes, not absence.
C17_RemoveZeroes ==
    last.op = "storage_remove"
        => /\ probe.key = StorageKeyFrom(last.name)
           /\ probe.args.value_non_null = 1
           /\ probe.args.value_len = KEY_LEN
           /\ probe.args.bytes = Zeros(KEY_LEN)
           /\ store[probe.key] = Some(Zeros(KEY_LEN))
           /\ get_kv(store, probe.key) = Some(Zeros(KEY_LEN))
           /\ \A k \in StoreKeys \ {probe.key} : store[k] = probe.prev[k]

\* a remove of a key that held a put value, another key holding a record
C17_Witness ==
    /\ last.op = "storage_remove"
    /\ probe.prev[probe.key].some
    /\ probe.prev[probe.key].v # Zeros(KEY_LEN)
    /\ get_kv(store, probe.key).some
    /\ \E k \in StoreKeys \ {probe.key} : store[k].some

\* C18: after a flush, a load of the key returns exactly the table the
\* flushing instance held, whatever another instance of the same key holds
\* or flushed before: an entry of the other instance that the flushing one
\* lacks is not in it; and at any time a load returns the last flushed table.
C18_LastFlushWins ==
    \A n \in TwoNames :
        /\ (last.op = "flush" /\ inst[last.slot].map.storage_key = to_storage_key(n))
               => /\ LoadNow(n).ok
                  /\ LoadNow(n).val.inner = inst[last.slot].map.inner
                  /\ \A s \in AllSlots, k \in MapKeys :
                         (inst[s].live /\ MapContainsKey(inst[s].map, k)
                              /\ ~MapContainsKey(inst[last.slot].map, k))
                             => ~MapContainsKey(LoadNow(n).val, k)
        /\ flushed[to_storage_key(n)].some
               => /\ LoadNow(n).ok
                  /\ LoadNow(n).val.inner = flushed[to_storage_key(n)].v

\* both slots hold instances of the key; the one flushed its entry a and is
\* unchanged since, then the other flushed a table with an entry b and
\* without a; a load returns b and not a
C18_Witness ==
    \E A, B \in AllSlots, n \in TwoNames :
        /\ A # B
        /\ last.op = "flush" /\ last.slot = B
        /\ inst[A].live /\ inst[B].live
        /\ inst[A].map.storage_key = to_storage_key(n)
        /\ inst[B].map.storage_key = to_storage_key(n)
        /\ probe.flushedAt[A] = Some(inst[A].map.inner)
        /\ \E a, b \in MapKeys :
               /\ MapContainsKey(inst[A].map, a)
               /\ ~MapContainsKey(inst[B].map, a)
               /\ MapContainsKey(inst[B].map, b)
               /\ ~MapContainsKey(inst[A].map, b)
               /\ LoadNow(n).ok
               /\ MapContainsKey(LoadNow(n).val, b)
               /\ ~MapContainsKey(LoadNow(n).val, a)

\* C19: two names share a storage key exactly when their first 32 bytes
\* after zero-padding are equal, and then Map::new binds both to one key;
\* neither Map::new nor insert nor flush fails; and a load under any name
\* returns the table last flushed under that name's key, whichever name
\* the flushing instance was made with.
C19_SilentCollision ==
    /\ \A n1, n2 \in CollideNames :
           /\ (StorageKeyFrom(n1) = StorageKeyFrom(n2))
                  <=> (PaddedPrefix(n1) = PaddedPrefix(n2))
           /\ (MapNew(n1).storage_key = MapNew(n2).storage_key)
                  <=> (PaddedPrefix(n1) = PaddedPrefix(n2))
    /\ last.op \in {"new", "insert", "flush"} => ~panicked
    /\ last.op = "new" => inst[last.slot].map.storage_key = to_storage_key(last.name)
    /\ \A n \in CollideNames :
           flushed[to_storage_key(n)].some
               => /\ LoadNow(n).ok
                  /\ LoadNow(n).val.inner = flushed[to_storage_key(n)].v
    /\ (last.op = "load" /\ ~panicked)
           => inst[last.slot].map.inner = flushed[to_storage_key(last.name)].v

\* a load under a reader name returns the two entries that the instance
\* made under a different, colliding writer name flushed and still holds
C19_Witness ==
    /\ last.op = "load"
    /\ last.name \in ReaderNames
    /\ last.name \notin WriterNames
    /\ inst[1].live /\ inst[2].live
    /\ inst[1].map.storage_key = inst[2].map.storage_key
    /\ MapLen(inst[2].map) = 2
    /\ inst[2].map.inner = inst[1].map.inner
    /\ flushed[inst[1].map.storage_key] = Some(inst[1].map.inner)

\* C20: the empty name derives to the all-zero key, the key of
\* Map::default() and of every map that Decode produces; an instance made
\* by Map::default() or by decoding a record with Storage::get is bound to
\* it, and what such an instance flushes is what Map::load(b"") returns.
C20_EmptyNameIsDefaultKey ==
    /\ StorageKeyFrom(NameEmpty) = StorageKeyZero
    /\ to_storage_key(NameEmpty) = STORAGE_KEY_ZERO
    /\ MapDefault.storage_key = to_storage_key(NameEmpty)
    /\ \A k \in StoreKeys :
           (store[k].some /\ MapDecode(store[k].v).ok)
               => MapDecode(store[k].v).val.storage_key = to_storage_key(NameEmpty)
    /\ (last.op \in {"default", "storage_get"} /\ ~panicked)
           => inst[last.slot].map.storage_key = to_storage_key(NameEmpty)
    /\ (last.op = "flush"
            /\ inst[last.slot].map.storage_key = MapDefault.storage_key)
           => /\ LoadNow(NameEmpty).ok
              /\ LoadNow(NameEmpty).val.inner = inst[last.slot].map.inner
    /\ (last.op = "load" /\ last.name = NameEmpty /\ ~panicked)
           => /\ flushed[MapDefault.storage_key].some
              /\ inst[last.slot].map.inner = flushed[MapDefault.storage_key].v

\* Map::load(b"") returning two entries, a record being held under the key
\* of b"my map" as well
C20_Witness ==
    /\ last.op = "load"
    /\ last.name = NameEmpty
    /\ ~panicked
    /\ MapLen(inst[last.slot].map) = 2
    /\ store[to_storage_key(NameShort)].some

\* the instance in slot s holds what a load_or_create of its key would
\* return: the stored table, or no entry when nothing is stored
AgreesIn(st, in, s) ==
    \/ InSyncIn(st, in, s)
    \/ /\ in[s].live
       /\ ~st[in[s].map.storage_key].some
       /\ MapIsEmpty(in[s].map)

\* a step that is the operation op on the instance in slot s
StepOn(s, ops) == last'.slot = s /\ last'.op \in ops /\ ~panicked'

\* load, load_or_create and flush end in agreement with the store
C21_SyncPoints ==
    \A s \in MainSlots :
        /\ StepOn(s, {"load", "flush"}) => InSyncIn(store', inst', s)
        /\ StepOn(s, {"load_or_create"}) => AgreesIn(store', inst', s)

\* no operation on a live instance ends it: it stays live and nothing panics
C21_StaysLive ==
    \A s \in MainSlots :
        (inst[s].live /\ last'.slot = s /\ last'.op \in SameInstanceOps)
            => (inst'[s].live /\ ~panicked')

\* insert, remove, get and flush are enabled on every live instance
C21_NoTerminalState ==
    \A s \in MainSlots :
        (inst[s].live /\ ~panicked)
               => /\ \A k \in MapKeys, v \in MapValues : ENABLED Insert(s, k, v)
                  /\ \A k \in MapKeys : ENABLED Remove(s, k)
                  /\ \A k \in MapKeys : ENABLED Get(s, k)
                  /\ ENABLED Flush(s)

\* C21 as stated: every insert or remove leaves the store stale, and no
\* insert or remove brings an instance that disagrees with the store back
\* to agreement
C21_DirtyUntilFlush ==
    /\ []C21_NoTerminalState
    /\ [][/\ C21_SyncPoints
          /\ C21_StaysLive
          /\ \A s \in MainSlots :
                 (inst[s].live /\ StepOn(s, {"insert", "remove"}))
                     => ~InSyncIn(store', inst', s)]_vars

\* C21: an instance agrees with the store right after load, load_or_create
\* and flush; insert and remove never touch the store, so after one the
\* instance agrees with the store exactly when its table equals the table
\* last flushed under its key, and an insert or remove that changes the
\* table of an agreeing instance leaves the store stale; no operation on a
\* live instance ends it.
C21_Lifecycle ==
    /\ []C21_NoTerminalState
    /\ [][/\ C21_SyncPoints
          /\ C21_StaysLive
          /\ \A s \in MainSlots :
                 (inst[s].live /\ StepOn(s, {"insert", "remove"}))
                     => /\ store' = store
                        /\ InSyncIn(store', inst', s)
                               <=> flushed[inst[s].map.storage_key]
                                       = Some(inst'[s].map.inner)
                        /\ (InSync(s) /\ inst'[s] # inst[s])
                               => ~InSyncIn(store', inst', s)]_vars

\* an instance that disagrees with a stored two-entry table after an insert
C21_Witness ==
    /\ last.op = "insert"
    /\ inst[last.slot].live
    /\ ~InSync(last.slot)
    /\ store[inst[last.slot].map.storage_key].some
    /\ MapLen(MapDecode(store[inst[last.slot].map.storage_key].v).val) = 2
    /\ MapLen(inst[last.slot].map) = 1

\* C22: deriving a key from a derived key gives the same key, for inputs
\* shorter than, as long as and longer than 32 bytes; so an instance is
\* bound by new, load and load_or_create to a key that flush re-derives to
\* itself, and records lie exactly under the keys instances were flushed
\* at, holding the table flushed.
C22_FlushTargetsBoundKey ==
    /\ \A b \in KeyInputs \cup BindNames :
           /\ Len(StorageKeyFrom(b)) = KEY_LEN
           /\ StorageKeyFrom(StorageKeyFrom(b)) = StorageKeyFrom(b)
    /\ (last.op \in {"new", "load", "load_or_create"} /\ ~panicked)
           => /\ inst[last.slot].map.storage_key = StorageKeyFrom(last.name)
              /\ to_storage_key(inst[last.slot].map.storage_key)
                     = inst[last.slot].map.storage_key
    /\ \A k \in StoreKeys :
           /\ store[k].some <=> flushed[k].some
           /\ store[k].some
                  => /\ MapDecode(store[k].v).ok
                     /\ MapDecode(store[k].v).val.inner = flushed[k].v
    /\ last.op = "flush" => InSync(last.slot)

\* a flush of a non-empty table by an instance bound under the name longer
\* than a key, nothing being stored under the other keys
C22_Witness ==
    /\ last.op = "flush"
    /\ inst[last.slot].map.storage_key = StorageKeyFrom(NameLong)
    /\ inst[last.slot].map.storage_key # NameLong
    /\ MapLen(inst[last.slot].map) = 2
    /\ InSync(last.slot)
    /\ \A k \in StoreKeys \ {StorageKeyFrom(NameLong)} : ~store[k].some

\* the table m holds exactly what the logged operations leave
HoldsLog(m, log) ==
    /\ DOMAIN m.inner = ExpectedKeys(log)
    /\ MapLen(m) = Cardinality(ExpectedKeys(log))
    /\ MapIsEmpty(m) <=> (MapLen(m) = 0)
    /\ \A k \in MapKeys :
           /\ MapGet(m, k) = Expected(log, k)
           /\ MapContainsKey(m, k) <=> Expected(log, k).some
    /\ \A ord \in IterOrders(m) :
           /\ Len(ord) = MapLen(m)
           /\ \A k \in ExpectedKeys(log) :
                  Cardinality({i \in 1..Len(ord) : ord[i] = k}) = 1

\* C23: after any sequence of inserts and removes the table holds each key
\* at most once, len is the number of keys inserted and not since removed,
\* is_empty holds exactly when len is 0 and get returns the value of the
\* latest insert; the decode of a record holds, for each key listed, the
\* value of the last pair listing it.
C23_AssociativeMap ==
    /\ probe.stage = "ops" => HoldsLog(probe.map, probe.log)
    /\ probe.stage = "decoded"
           => /\ probe.dec.ok
              /\ probe.dec.rest = <<>>
              /\ HoldsLog(probe.dec.val, AsInserts(probe.pairs))

\* a record listing one key twice with different values, decoded to one
\* entry holding the later value
C23_Witness ==
    /\ probe.stage = "decoded"
    /\ Len(probe.pairs) = 2
    /\ probe.pairs[1][1] = probe.pairs[2][1]
    /\ probe.pairs[1][2] # probe.pairs[2][2]
    /\ probe.dec.ok
    /\ MapLen(probe.dec.val) = 1
    /\ MapGet(probe.dec.val, probe.pairs[2][1]) = Some(probe.pairs[2][2])

\* C24: for every seed and every pair min <= max, random_in_range returns,
\* without panicking, a value between min and max.
C24_RandomInRangeBounded ==
    probe.stage = "called"
        => /\ ~probe.out.panic
           /\ probe.min <= probe.out.v
           /\ probe.out.v <= probe.max

====
